---- MODULE Spec2Model ----
(***************************************************************************)
(* Model of the type_racer game loop (src/src/main.rs): MainState, its     *)
(* fixed-step update, and its key_down_event handler.                      *)
(*                                                                         *)
(* Numbers.  f32 quantities are kept in fixed point: times in units of     *)
(* 1/Second seconds, x-positions in units of 1/Second pixels, so that      *)
(* `x += speed * seconds`, `3.0 - game_speed_up`, `+= 0.01` and `/= 2.0`   *)
(* are exact integer operations (f32 rounding is not modelled).            *)
(*                                                                         *)
(* u32 quantities keep their width.  A u32 is held as the integer of least *)
(* magnitude with the same residue modulo 2^32 (2^32 - 1 reads -1, as the  *)
(* checker's integers are 32 bits wide), so + and - are the wrapping u32   *)
(* operations; Geq is the unsigned order.  An operation that overflows     *)
(* wraps when the program was built with overflow checks off (the release  *)
(* profile) and aborts the process when it was built with them on (the     *)
(* debug profile).                                                         *)
(*                                                                         *)
(* Strings are sequences of one-character strings; NL is the newline.      *)
(*                                                                         *)
(* Not modelled: sound, the info panel, the y position and the sprite of a *)
(* word; update and key_down_event do not read them.  Of `fn draw` only    *)
(* the choice of the end-game message is modelled; it reads game_over and  *)
(* typed_words, writes no field of MainState, and is explored on its own   *)
(* (SpecDraw).                                                             *)
(***************************************************************************)
EXTENDS Integers, Sequences, FiniteSets, TLC

VARIABLES
    words_pool,            \* MainState.words_pool: Seq(String)
    debug_active,          \* what debug::is_active() answers in this process
    overflow_checks,       \* the program was built with overflow checks on
    game_over,             \* MainState.game_over
    current_input,         \* MainState.current_input
    cash,                  \* MainState.cash (u32)
    typed_words,           \* MainState.typed_words (u32)
    remaining_lifes,       \* MainState.remaining_lifes (u32)
    words,                 \* MainState.words: Seq(Word)
    time_until_next_word,  \* MainState.time_until_next_word (fixed point)
    game_speed_up,         \* MainState.game_speed_up (fixed point)
    steps,                 \* fixed steps timer::check_update_time still grants
                           \* to the update call in progress (0: no call)
    panicked,              \* the process was aborted by an overflow panic
    spawned,               \* history: words spawned since the initial state
    lifes_hit_zero,        \* history: remaining_lifes has been 0 at some point
    crossed,               \* history: words that have reached the right edge
    refused,               \* history: the last handler call was a purchase key
                           \* event that found the cash below its cost
    ending                 \* `ending` of the frame drawn last ("": none)

vars == << words_pool, debug_active, overflow_checks, game_over, current_input, cash,
           typed_words, remaining_lifes, words, time_until_next_word,
           game_speed_up, steps, panicked, spawned, lifes_hit_zero,
           crossed, refused, ending >>

\* ---------------------------------------------------------------- bounds

\* Fixed steps per second.  The program runs at 60; the model runs the same
\* loop at a coarser rate so that a word crosses the screen in a few steps.
FPS_CAP == 1

\* Most fixed steps one update call consumes (catch-up).
MaxSteps == 2

\* Most words spawned after the initial state.
MaxSpawns == 2

\* Longest input buffer explored.
MaxInput == 1

\* Most words typed in the games whose end-game message is drawn.
MaxTyped == 60

\* ------------------------------------------------------- program constants

BUY_LIFE_TAX == 300
REMOVE_WORDS_TAX == 350
SLOW_WORD_SPAWN_TAX == 1000
REMOVE_WORDS_COUNT == 2
INITIAL_LIFES == 5
SCREEN_WIDTH == 1200
TYPED_REWARD == 10
COLOR_REWARD == 20
COLOR_CHANCE == 30

\* One second, and one pixel, in fixed-point units: a multiple of 60 (the
\* program's step), of 100 (the 0.01 speed-up) and of 4 (two exact halvings).
Second == 24 * 100

NL == "\n"

\* ------------------------------------------------------- explored inputs

\* Contents of /words.dict: "a\n" and "a\nb".
DictFiles == { << "a", NL >>, << "a", NL, "b" >> }

\* rng.gen_range(50.0 .. 200.0), in pixels per second.
Speeds == { 120, 199 }

\* rng.gen_range(0 ..= 100), either side of the 30 threshold.
ColorRolls == { 29, 30 }

\* Where in [min_word_gen_time, max_word_gen_time) the next spawn time falls:
\* at its lower end, or just below its upper end.
GenOffsets == { 0, (Second \div 2) - 1 }

\* Letter keys pressed, each with or without shift held.
LetterKeys == { "A" }

\* Keys pressed.  The Numpad1, Numpad2 and Numpad3 arms of key_down_event
\* repeat the Key1, Key2 and Key3 arms word for word.
Keys == LetterKeys \cup { "Key1", "Key2", "Key3", "Back" }

\* ------------------------------------------------------------- helpers

RECURSIVE SplitNL(_)
\* str::split('\n'): the pieces between newlines, empty pieces included.
SplitNL(text) ==
    IF \A i \in 1..Len(text) : text[i] # NL
    THEN << text >>
    ELSE LET i == CHOOSE k \in 1..Len(text) :
                      text[k] = NL /\ \A j \in 1..(k - 1) : text[j] # NL
         IN  << SubSeq(text, 1, i - 1) >> \o SplitNL(SubSeq(text, i + 1, Len(text)))

\* `1.0 / (FPS_CAP as f32)`: the length of a fixed step.
seconds == Second \div FPS_CAP

screen_width == SCREEN_WIDTH * Second

min_word_gen_time(speed_up) == 3 * Second - speed_up

max_word_gen_time(speed_up) == (7 * Second) \div 2 - speed_up

\* `self.game_speed_up += 0.01`
SpeedUpStep == Second \div 100

\* Word::new: a word at the left edge, not typed.
NewWord(label, speed, is_color_changing) ==
    [ label |-> label, x |-> 0, speed |-> speed,
      is_color_changing |-> is_color_changing, is_typed |-> FALSE ]

\* Word::update: the word advances by speed * seconds; nothing else changes.
WordUpdate(word, dt) == [ word EXCEPT !.x = @ + word.speed * dt ]

\* Word::label
Label(word) == word.label

\* a >= b on u32 values.
Geq(a, b) == IF (a < 0) = (b < 0) THEN a >= b ELSE a < 0

\* Whether the u32 operation a + b overflows (b a small constant).
AddOverflows(a, b) == a < 0 /\ a + b >= 0

\* Whether the u32 operation a - b overflows.
SubOverflows(a, b) == ~Geq(a, b)

\* The values the random source hands to a fixed step that spawns a word.
Draws == [ word : 1..Len(words_pool), speed : Speeds, roll : ColorRolls,
           gen : GenOffsets ]

\* A fixed step that spawns no word draws nothing.
NoDraw == [ word |-> 1, speed |-> 0, roll |-> 0, gen |-> 0 ]

\* ------------------------------------------------------------- update

\* The simulation state one fixed step works on.
Sim == [ current_input |-> current_input, cash |-> cash,
         typed_words |-> typed_words, remaining_lifes |-> remaining_lifes,
         game_over |-> game_over, words |-> words,
         time_until_next_word |-> time_until_next_word,
         game_speed_up |-> game_speed_up,
         overflow |-> FALSE, hit_zero |-> lifes_hit_zero,
         crossed |-> crossed ]

\* `word.label() == self.current_input`
Matches(st, word) == Label(word) = st.current_input

\* `word.pos.x >= self.screen_width`
Crosses(word) == word.x >= screen_width

\* "color chaning words give more points"
Reward(word) == IF word.is_color_changing THEN COLOR_REWARD ELSE TYPED_REWARD

\* `if word.label() == self.current_input { ... }`
MatchInput(st, word) ==
    IF Matches(st, word)
    THEN [ st EXCEPT !.typed_words = @ + 1,
                     !.cash = @ + Reward(word),
                     !.current_input = << >>,
                     !.overflow = @ \/ AddOverflows(st.typed_words, 1)
                                    \/ AddOverflows(st.cash, Reward(word)) ]
    ELSE st

\* `self.remaining_lifes -= 1; if self.remaining_lifes == 0 { game_over }`
LoseLife(st) ==
    LET left == st.remaining_lifes - 1
    IN  [ st EXCEPT !.remaining_lifes = left,
                    !.overflow = @ \/ SubOverflows(st.remaining_lifes, 1),
                    !.game_over = @ \/ left = 0,
                    !.hit_zero = @ \/ left = 0 ]

\* CheckBoundary without the debug::is_active() test.
CheckBoundaryAlways(st, word, debug) ==
    IF Crosses(word) THEN LoseLife(st) ELSE st

\* `if word.pos.x >= self.screen_width { ... }`
CheckBoundary(st, word, debug) ==
    IF Crosses(word) /\ ~debug THEN LoseLife(st) ELSE st

\* `word.is_typed = true` in either branch of the loop body: the flag of a
\* moved word once the loop body has run on it in state st.
TypedAfter(st, word) == word.is_typed \/ Matches(st, word) \/ Crosses(word)

RECURSIVE WordLoop(_, _, _, _)
\* `for word in self.words.iter_mut() { ... }` from word i on; st.words
\* collects the words already visited.
WordLoop(ws, i, st, debug) ==
    IF i > Len(ws)
    THEN st
    ELSE LET moved == WordUpdate(ws[i], seconds)
             st1 == MatchInput(st, moved)
             st2 == CheckBoundary(st1, moved, debug)
             done == [ moved EXCEPT !.is_typed = TypedAfter(st, moved) ]
             st3 == [ st2 EXCEPT !.crossed = IF Crosses(moved) THEN @ + 1 ELSE @ ]
         IN  WordLoop(ws, i + 1, [ st3 EXCEPT !.words = Append(@, done) ], debug)

\* Retain that prunes nothing.
RetainAll(ws) == ws

\* `self.words.retain(|word| !word.is_typed)`
Retain(ws) == SelectSeq(ws, LAMBDA w : ~w.is_typed)

\* Whether this fixed step spawns a word.
SpawnDue(st) == st.time_until_next_word - seconds <= 0

\* SpawnWords with the speed-up raised before the next spawn time is drawn.
SpawnWordsRampFirst(st, pool, d) ==
    IF SpawnDue(st)
    THEN [ st EXCEPT
             !.words = Append(@, NewWord(pool[d.word], d.speed,
                                         d.roll < COLOR_CHANCE)),
             !.time_until_next_word =
                 min_word_gen_time(st.game_speed_up + SpeedUpStep) + d.gen,
             !.game_speed_up = @ + SpeedUpStep ]
    ELSE [ st EXCEPT !.time_until_next_word = @ - seconds ]

\* "Spawn words": the timer, the new word, the next spawn time, the speed-up.
\* (TextSprite::new and Word::new are taken to succeed.)
SpawnWords(st, pool, d) ==
    IF SpawnDue(st)
    THEN [ st EXCEPT
             !.words = Append(@, NewWord(pool[d.word], d.speed,
                                         d.roll < COLOR_CHANCE)),
             !.time_until_next_word =
                 min_word_gen_time(st.game_speed_up) + d.gen,
             !.game_speed_up = @ + SpeedUpStep ]
    ELSE [ st EXCEPT !.time_until_next_word = @ - seconds ]

\* One pass of `while timer::check_update_time(ctx, FPS_CAP) { ... }`.
FixedStepResult(st, pool, debug, d) ==
    LET st1 == SpawnWords(st, pool, d)
        st2 == WordLoop(st1.words, 1, [ st1 EXCEPT !.words = << >> ], debug)
    IN  [ st2 EXCEPT !.words = Retain(@) ]

\* `fn update`, its entry: nothing happens once the game is over; otherwise
\* the while loop runs for as many fixed steps as the timer grants (n).
UpdateCall(n) ==
    /\ steps = 0
    /\ ~panicked
    /\ steps' = IF game_over THEN 0 ELSE n
    /\ refused' = FALSE
    /\ UNCHANGED << words_pool, debug_active, overflow_checks, game_over,
                    current_input, cash, typed_words, remaining_lifes, words,
                    time_until_next_word, game_speed_up, panicked, spawned,
                    lifes_hit_zero, crossed, ending >>

\* One pass of the while loop of `fn update`, with the random values d.  An
\* overflowing u32 operation aborts the process (overflow checks on) or
\* wraps (overflow checks off).
FixedStep(d) ==
    /\ steps > 0
    /\ ~panicked
    /\ SpawnDue(Sim) => spawned < MaxSpawns
    /\ LET st == FixedStepResult(Sim, words_pool, debug_active, d)
       IN  \/ /\ st.overflow /\ overflow_checks
              /\ panicked' = TRUE
              /\ UNCHANGED << game_over, current_input, cash, typed_words,
                              remaining_lifes, words, time_until_next_word,
                              game_speed_up, steps, spawned, lifes_hit_zero,
                              crossed >>
           \/ /\ ~(st.overflow /\ overflow_checks)
              /\ current_input' = st.current_input
              /\ cash' = st.cash
              /\ typed_words' = st.typed_words
              /\ remaining_lifes' = st.remaining_lifes
              /\ game_over' = st.game_over
              /\ words' = st.words
              /\ time_until_next_word' = st.time_until_next_word
              /\ game_speed_up' = st.game_speed_up
              /\ lifes_hit_zero' = st.hit_zero
              /\ crossed' = st.crossed
              /\ spawned' = IF SpawnDue(Sim) THEN spawned + 1 ELSE spawned
              /\ steps' = steps - 1
              /\ UNCHANGED panicked
    /\ UNCHANGED << words_pool, debug_active, overflow_checks, refused,
                    ending >>

\* ------------------------------------------------------- key_down_event

\* check_shift_pressed: the letter appended to the input.
check_shift_pressed(input, shift, lower_letter, upper_letter) ==
    IF shift THEN Append(input, upper_letter) ELSE Append(input, lower_letter)

\* The (lower, upper) letters of the letter keys explored.
LowerLetter(keycode) == CASE keycode = "A" -> "a" [] keycode = "B" -> "b"

UpperLetter(keycode) == keycode

\* `self.current_input.pop()`
Pop(input) == IF input = << >> THEN input ELSE SubSeq(input, 1, Len(input) - 1)

\* BuyLife without the cash test.
BuyLifeUnpaid(st) ==
    [ st EXCEPT !.cash = @ - BUY_LIFE_TAX,
                !.remaining_lifes = @ + 1,
                !.overflow = SubOverflows(st.cash, BUY_LIFE_TAX),
                !.hit_zero = @ \/ st.remaining_lifes + 1 = 0 ]

\* KeyCode::Numpad1 | KeyCode::Key1
BuyLife(st) ==
    IF Geq(st.cash, BUY_LIFE_TAX)
    THEN [ st EXCEPT !.cash = @ - BUY_LIFE_TAX,
                     !.remaining_lifes = @ + 1,
                     !.overflow = AddOverflows(st.remaining_lifes, 1),
                     !.hit_zero = @ \/ st.remaining_lifes + 1 = 0 ]
    ELSE st

\* The words a remove-words purchase flags: all of them, or the sampled ones.
Flagged(ws, sample) ==
    IF Len(ws) <= REMOVE_WORDS_COUNT THEN 1..Len(ws) ELSE sample

\* CanRemoveWords without the cash test.
CanRemoveWordsUnpaid(st) == Len(st.words) > 0

\* Whether a remove-words purchase goes through.
CanRemoveWords(st) == Geq(st.cash, REMOVE_WORDS_TAX) /\ Len(st.words) > 0

\* KeyCode::Numpad2 | KeyCode::Key2, with the indexes seq::index::sample draws.
RemoveWords(st, sample) ==
    IF CanRemoveWords(st)
    THEN [ st EXCEPT
             !.cash = @ - REMOVE_WORDS_TAX,
             !.words = [ i \in 1..Len(st.words) |->
                           IF i \in Flagged(st.words, sample)
                           THEN [ st.words[i] EXCEPT !.is_typed = TRUE ]
                           ELSE st.words[i] ] ]
    ELSE st

\* SlowWordSpawn without the cash test.
SlowWordSpawnUnpaid(st) ==
    [ st EXCEPT !.cash = @ - SLOW_WORD_SPAWN_TAX,
                !.game_speed_up = @ \div 2,
                !.overflow = SubOverflows(st.cash, SLOW_WORD_SPAWN_TAX) ]

\* KeyCode::Key3 | KeyCode::Numpad3
SlowWordSpawn(st) ==
    IF Geq(st.cash, SLOW_WORD_SPAWN_TAX)
    THEN [ st EXCEPT !.cash = @ - SLOW_WORD_SPAWN_TAX,
                     !.game_speed_up = @ \div 2 ]
    ELSE st

\* seq::index::sample(rng, length, REMOVE_WORDS_COUNT): the sets of
\* REMOVE_WORDS_COUNT distinct indexes.
Samples(length) ==
    { s \in SUBSET (1..length) : Cardinality(s) = REMOVE_WORDS_COUNT }

\* What seq::index::sample may draw for these words (nothing is drawn when
\* there are REMOVE_WORDS_COUNT words or fewer).
SampleChoices(ws) ==
    IF Len(ws) <= REMOVE_WORDS_COUNT THEN { {} } ELSE Samples(Len(ws))

\* `match keycode { ... }`
KeyResult(st, keycode, shift, sample) ==
    CASE keycode \in { "Numpad1", "Key1" } -> BuyLife(st)
      [] keycode \in { "Numpad2", "Key2" } -> RemoveWords(st, sample)
      [] keycode \in { "Numpad3", "Key3" } -> SlowWordSpawn(st)
      [] keycode = "Minus" ->
           [ st EXCEPT !.current_input = Append(@, "-") ]
      [] keycode \in LetterKeys ->
           [ st EXCEPT !.current_input =
               check_shift_pressed(@, shift, LowerLetter(keycode),
                                   UpperLetter(keycode)) ]
      [] keycode = "Back" -> [ st EXCEPT !.current_input = Pop(@) ]
      [] OTHER -> st

\* The cost of the purchase a key asks for (0: the key buys nothing).
Tax(keycode) ==
    CASE keycode \in { "Numpad1", "Key1" } -> BUY_LIFE_TAX
      [] keycode \in { "Numpad2", "Key2" } -> REMOVE_WORDS_TAX
      [] keycode \in { "Numpad3", "Key3" } -> SLOW_WORD_SPAWN_TAX
      [] OTHER -> 0

\* `fn key_down_event`: a key event delivered between two update calls.
KeyDown(keycode, shift, sample) ==
    /\ steps = 0
    /\ ~panicked
    /\ refused' = ~Geq(cash, Tax(keycode))
    /\ LET st == KeyResult(Sim, keycode, shift, sample)
       IN  /\ Len(st.current_input) <= MaxInput
           /\ \/ /\ st.overflow /\ overflow_checks
                 /\ panicked' = TRUE
                 /\ UNCHANGED << current_input, cash, remaining_lifes, words,
                                 game_speed_up, lifes_hit_zero >>
              \/ /\ ~(st.overflow /\ overflow_checks)
                 /\ current_input' = st.current_input
                 /\ cash' = st.cash
                 /\ remaining_lifes' = st.remaining_lifes
                 /\ words' = st.words
                 /\ game_speed_up' = st.game_speed_up
                 /\ lifes_hit_zero' = st.hit_zero
                 /\ UNCHANGED panicked
    /\ UNCHANGED << words_pool, debug_active, overflow_checks, game_over,
                    typed_words, time_until_next_word, steps, spawned,
                    crossed, ending >>

\* ------------------------------------------------------------ initial states

\* The states the exploration starts from: the dictionary file, what
\* debug::is_active() answers, whether the build checks overflow (the one
\* start from which a u32 can overflow is explored with either build), and
\* how far the game has been played: the
\* number of words typed so far, how many of them were color changing, the
\* number of words that crossed the screen, and the speeds of the words
\* spawned last that are still on the screen, oldest first.  The first rows
\* are new games; the last is a practice-mode game left running untouched
\* (in practice mode a crossing word takes no life, so the game goes on).
\* Words spawned in the long practice-mode game that is explored: the
\* speed-up has reached 3.60, past both 3.0 and 3.5.
LongRunSpawns == 360

Starts ==
    { [ file |-> f, debug |-> d, checks |-> TRUE, typed |-> 0, color |-> 0,
        missed |-> 0, waiting |-> << >> ] : f \in DictFiles, d \in BOOLEAN }
    \cup
    { [ file |-> << "a", NL, "b" >>, debug |-> FALSE, checks |-> c,
        typed |-> 19, color |-> 11, missed |-> 4, waiting |-> << 120, 199 >> ] :
      c \in BOOLEAN }
    \cup
    { [ file |-> << "a", NL, "b" >>, debug |-> TRUE, checks |-> TRUE,
        typed |-> 3, color |-> 0, missed |-> 0, waiting |-> << 120, 199 >> ] }
    \cup
    { [ file |-> << "a", NL, "b" >>, debug |-> FALSE, checks |-> FALSE,
        typed |-> 50, color |-> 50, missed |-> 0, waiting |-> << 120 >> ] }
    \cup
    { [ file |-> << "a", NL, "b" >>, debug |-> TRUE, checks |-> TRUE,
        typed |-> 0, color |-> 0, missed |-> LongRunSpawns - 6,
        waiting |-> << 199, 199, 199, 199, 199, 199 >> ] }

\* The fixed steps from a spawn to the next when the spawn time drawn is the
\* least one, min_word_gen_time(speed_up): the very next fixed step spawns
\* when that time is no longer than a step.
GapSteps(speed_up) ==
    IF min_word_gen_time(speed_up) <= seconds THEN 1
    ELSE (min_word_gen_time(speed_up) + seconds - 1) \div seconds

RECURSIVE Aged(_, _)
\* A word after n more fixed steps on the screen.
Aged(word, n) == IF n = 0 THEN word ELSE Aged(WordUpdate(word, seconds), n - 1)

RECURSIVE Waiting(_, _, _)
\* The words still on the screen at a start: the word of speed speeds[i] was
\* the (first + i)-th word spawned, each spawned the least time after the
\* one before; a word moves in the fixed step that spawns it and in every
\* later one.  They carry the dictionary's first word and are not color
\* changing.
Waiting(pool, speeds, first) ==
    IF speeds = << >> THEN << >>
    ELSE LET later == Waiting(pool, Tail(speeds), first + 1)
             moves == IF later = << >> THEN 1
                      ELSE later[1].x \div (later[1].speed * seconds)
                             + GapSteps((first - 1) * SpeedUpStep)
         IN  << Aged(NewWord(pool[1], Head(speeds), FALSE), moves) >> \o later

\* MainState::new, and then a game played up to the fixed step that spawned
\* its last word so far: `missed` of the words spawned have crossed the
\* screen, `typed` were typed in the fixed step that spawned them (their
\* text was in the input buffer already), `color` of those were color
\* changing, the `waiting` ones, spawned last, were neither typed nor
\* bought off, and nothing was bought.  With typed = missed = 0 and nothing
\* waiting this is the state MainState::new returns; with INITIAL_LIFES
\* missed the game is over.  The words typed and
\* the other words carry different labels (every dictionary explored has
\* two), and a missed word has left the screen by the third spawn after its
\* own, so 3 or more typed words after 4 missed suffice.  In practice mode
\* (start.debug) the missed words took no life.
InitFor(start, gen) ==
    LET pool == SplitNL(start.file)
        before == start.typed + start.missed
        spawns == before + Len(start.waiting)
    IN  /\ words_pool = pool
        /\ debug_active = start.debug
        /\ overflow_checks = start.checks
        /\ game_over = (~start.debug /\ start.missed = INITIAL_LIFES)
        /\ current_input = << >>
        /\ cash = TYPED_REWARD * (start.typed - start.color)
                    + COLOR_REWARD * start.color
        /\ typed_words = start.typed
        /\ remaining_lifes = IF start.debug THEN INITIAL_LIFES
                             ELSE INITIAL_LIFES - start.missed
        /\ words = Waiting(pool, start.waiting, before + 1)
        /\ time_until_next_word =
             IF spawns = 0 THEN 3 * Second
             ELSE min_word_gen_time((spawns - 1) * SpeedUpStep) + gen
        /\ game_speed_up = spawns * SpeedUpStep
        /\ steps = 0
        /\ panicked = FALSE
        /\ spawned = 0
        /\ lifes_hit_zero = (~start.debug /\ start.missed = INITIAL_LIFES)
        /\ crossed = start.missed
        /\ refused = FALSE
        /\ ending = ""

Init == \E start \in Starts, gen \in GenOffsets : InitFor(start, gen)

Next ==
    \/ \E n \in 1..MaxSteps : UpdateCall(n)
    \/ \E d \in (IF SpawnDue(Sim) THEN Draws ELSE { NoDraw }) : FixedStep(d)
    \/ \E keycode \in Keys :
         \E shift \in (IF keycode \in LetterKeys THEN BOOLEAN ELSE { FALSE }) :
           \E sample \in (IF keycode = "Key2" THEN SampleChoices(words)
                          ELSE { {} }) :
             KeyDown(keycode, shift, sample)

Spec == Init /\ [][Next]_vars

\* ------------------------------------------------------------------- draw

BUMMER == "Bummer, I know you can do better :) Try again!"

NOT_VERY_BAD == "Not very bad!"

AMAZING == "Amazing, but can you do better?"

MADMAN == "You're a madman, niiice :)"

\* Ending with each threshold taken one word too late.
EndingLate(typed) ==
    IF typed <= 5 THEN BUMMER
    ELSE IF typed > 5 /\ typed <= 20 THEN NOT_VERY_BAD
    ELSE IF typed > 20 /\ typed <= 50 THEN AMAZING
    ELSE MADMAN

\* `let ending; if self.typed_words < 5 { ... } else { ... }`
Ending(typed) ==
    IF typed < 5 THEN BUMMER
    ELSE IF typed >= 5 /\ typed < 20 THEN NOT_VERY_BAD
    ELSE IF typed >= 20 /\ typed < 50 THEN AMAZING
    ELSE MADMAN

\* `fn draw`: the "Game over scene" chooses its message; a frame of the
\* running game has none.
Draw ==
    /\ steps = 0
    /\ ~panicked
    /\ ending' = IF game_over THEN Ending(typed_words) ELSE ""
    /\ refused' = FALSE
    /\ UNCHANGED << words_pool, debug_active, overflow_checks, game_over,
                    current_input, cash, typed_words, remaining_lifes, words,
                    time_until_next_word, game_speed_up, steps, panicked,
                    spawned, lifes_hit_zero, crossed >>

\* Games in which up to MaxTyped words were typed, running with no word
\* missed or over with INITIAL_LIFES words missed, before a frame is drawn.
InitDraw ==
    \E typed \in 0..MaxTyped, missed \in { 0, INITIAL_LIFES } :
      InitFor([ file |-> << "a", NL, "b" >>, debug |-> FALSE,
                checks |-> TRUE, typed |-> typed, color |-> 0,
                missed |-> missed, waiting |-> << >> ], 0)

NextDraw == Draw

SpecDraw == InitDraw /\ [][NextDraw]_vars

\* ------------------------------------------------------------ unattended game
\* A game nobody plays: practice mode is off, the update calls keep coming,
\* and the player neither buys anything nor types the text of a word.

\* The starts of such a game that end within MaxSpawns more spawns: all but
\* one of the INITIAL_LIFES lifes are gone.
IdleStarts ==
    { start \in Starts : ~start.debug /\ start.missed = INITIAL_LIFES - 1 }

InitIdle == \E start \in IdleStarts, gen \in GenOffsets : InitFor(start, gen)

\* The key events of such a game: upper-case letters (the dictionaries
\* explored hold lower-case words only) and Back.
IdleKeyDown ==
    \/ \E keycode \in LetterKeys : KeyDown(keycode, TRUE, {})
    \/ KeyDown("Back", FALSE, {})

\* `fn update` is called, and its while loop runs, in every state.
UpdateCalls == \E n \in 1..MaxSteps : UpdateCall(n)

FixedSteps == \E d \in (IF SpawnDue(Sim) THEN Draws ELSE { NoDraw }) : FixedStep(d)

NextIdle ==
    \/ UpdateCalls
    \/ FixedSteps
    \/ IdleKeyDown

\* The event loop calls update once per frame for as long as the process
\* runs, and an update call runs every fixed step it was granted.
SpecIdle ==
    /\ InitIdle
    /\ [][NextIdle]_vars
    /\ WF_vars(UpdateCalls)
    /\ WF_vars(FixedSteps)

\* ----------------------------------------------------------------- properties

\* A step of the model is a fixed step that ran to its end.
StepDone == steps' = steps - 1

\* A step of the model is a remove-words key event.
RemoveWordsEvent ==
    \E sample \in SampleChoices(words) : KeyDown("Key2", FALSE, sample)

\* Word i of the current words after this fixed step's movement.
Moved(i) == WordUpdate(words[i], seconds)

\* The active words: in play and not yet consumed.
Active == { i \in 1..Len(words) : ~words[i].is_typed }

\* The active words whose text equals the input buffer.
Matching == { i \in Active : words[i].label = current_input }

\* The earliest of them in iteration order.
FirstMatching == CHOOSE i \in Matching : \A j \in Matching : i <= j

\* The word the Input Matcher resolves in this fixed step, if any.
Matched == IF Matching = {} THEN {} ELSE { FirstMatching }

\* The words at or beyond the right edge after this fixed step's movement.
Crossing == { i \in 1..Len(words) : Moved(i).x >= SCREEN_WIDTH * Second }

RECURSIVE MovedKept(_, _)
\* The current words from index i on whose index is in keep, in order, each
\* after this fixed step's movement.
MovedKept(i, keep) ==
    IF i > Len(words) THEN << >>
    ELSE (IF i \in keep THEN << Moved(i) >> ELSE << >>) \o MovedKept(i + 1, keep)

\* C1: with practice mode off, a word whose text equals the input buffer and
\* which is at or beyond the right edge after the fixed step's movement is
\* resolved by the Input Matcher only: it is credited and removed, and no
\* life is lost for it.
C1_MatchedCrossingWordCostsNoLife ==
    [][ ( /\ StepDone
          /\ ~debug_active
          /\ Matching # {}
          /\ FirstMatching \in Crossing )
        => /\ typed_words' > typed_words
           /\ cash' >= cash + Reward(words[FirstMatching])
           /\ \A i \in 1..Len(words') : words'[i].x < SCREEN_WIDTH * Second
           /\ remaining_lifes' =
                remaining_lifes - Cardinality(Crossing \ { FirstMatching }) ]_vars

\* C2: with practice mode off, the life decrement never runs while
\* remaining_lifes is 0: remaining_lifes never goes below 0, by wrapping or
\* by an overflow panic.
C2_LifesNeverBelowZero ==
    ~debug_active => (remaining_lifes >= 0 /\ ~panicked)

\* C3: once game_over is set, no fixed step changes the words, the lifes,
\* the cash, the typed-words count, the input buffer, the spawn timer or
\* the speed-up; the remaining fixed steps of the same update call included.
C3_NoStepAfterGameOver ==
    [][ (game_over /\ StepDone)
        => UNCHANGED << words, remaining_lifes, cash, typed_words,
                        current_input, time_until_next_word,
                        game_speed_up >> ]_vars

\* C4: remaining_lifes >= 0 always, game_over holds exactly when
\* remaining_lifes has been 0 at some point, and game_over never returns
\* to false.
C4_GameOverIffLifesHitZero ==
    [][ /\ remaining_lifes' >= 0
        /\ ~panicked'
        /\ game_over' <=> lifes_hit_zero'
        /\ game_over => game_over' ]_vars

\* C5: the cash is never negative: no purchase deducts more than there is.
C5_CashNeverNegative == cash >= 0

\* C5 witness: out of 1000 earned, two remove-words purchases and an extra
\* life were bought, the last with exactly its cost left.
C5_Witness ==
    /\ cash = 0
    /\ typed_words = 50
    /\ remaining_lifes = INITIAL_LIFES + 1
    /\ \E i \in 1..Len(words) : words[i].is_typed

\* C6: when the input buffer equals the text of an active word at the start
\* of a fixed step, that step removes exactly one such word, the earliest,
\* empties the buffer, adds 1 to typed_words and adds the word's reward (20
\* if color changing, else 10) to the cash.
C6_OneWordTypedPerMatch ==
    [][ (StepDone /\ Matching # {})
        => /\ current_input' = << >>
           /\ typed_words' = typed_words + 1
           /\ cash' = cash + Reward(words[FirstMatching])
           /\ ~SpawnDue(Sim) =>
                words' = MovedKept(1, (Active \ Crossing) \ { FirstMatching }) ]_vars

\* C7: a fixed step matches at most one word: typed_words grows by at most
\* 1 and the cash by at most 20.
C7_AtMostOneMatchPerStep ==
    [][ StepDone => /\ typed_words' <= typed_words + 1
                    /\ cash' <= cash + COLOR_REWARD ]_vars

\* C8: with practice mode off, no word at or beyond the right edge is left
\* at the end of a fixed step, and the step takes exactly one life for each
\* crossing word that the input did not match.
C8_OneLifePerUnmatchedCrossing ==
    [][ (StepDone /\ ~debug_active)
        => /\ \A i \in 1..Len(words') : words'[i].x < SCREEN_WIDTH * Second
           /\ remaining_lifes' =
                remaining_lifes - Cardinality(Crossing \ Matched) ]_vars

\* The smaller of two numbers.
Min(a, b) == IF a <= b THEN a ELSE b

\* C9: a remove-words purchase with cash >= 350 and n >= 1 active words
\* deducts exactly 350 and marks exactly min(2, n) active words consumed,
\* and changes nothing else.
C9_RemoveWordsMarksMinTwo ==
    [][ (RemoveWordsEvent /\ cash >= REMOVE_WORDS_TAX /\ Active # {})
        => /\ cash' = cash - REMOVE_WORDS_TAX
           /\ Len(words') = Len(words)
           /\ Cardinality({ i \in Active : words'[i].is_typed })
                = Min(REMOVE_WORDS_COUNT, Cardinality(Active))
           /\ \A i \in 1..Len(words) :
                words'[i] \in { words[i], [ words[i] EXCEPT !.is_typed = TRUE ] }
           /\ UNCHANGED << remaining_lifes, typed_words, current_input >> ]_vars

\* C10: a remove-words purchase made while no word is active changes neither
\* the cash nor the words.
C10_NoActiveWordNoCharge ==
    [][ (RemoveWordsEvent /\ Active = {}) => UNCHANGED << cash, words >> ]_vars

\* A step of the model is an extra-life key event.
BuyLifeEvent == KeyDown("Key1", FALSE, {})

\* C11: an extra-life purchase with cash >= 300 adds exactly 1 to
\* remaining_lifes and takes exactly 300 from the cash; with less cash it
\* changes neither; either way the words, the input buffer, typed_words,
\* the spawn timer and the speed-up are unchanged.
C11_BuyLifeAddsOneLife ==
    [][ BuyLifeEvent
        => /\ IF cash >= BUY_LIFE_TAX
              THEN /\ cash' = cash - BUY_LIFE_TAX
                   /\ remaining_lifes' = remaining_lifes + 1
                   /\ ~AddOverflows(remaining_lifes, 1)
                   /\ ~panicked'
              ELSE UNCHANGED << cash, remaining_lifes >>
           /\ UNCHANGED << words, current_input, typed_words,
                           time_until_next_word, game_speed_up >> ]_vars

\* The keys that ask for a purchase.
PurchaseKeys == { "Key1", "Key2", "Key3" }

\* C12: a purchase key event that finds the cash below the cost of its
\* purchase changes nothing of the game state, and no key event deducts
\* more than the one cost of its purchase.
C12_RefusedPurchaseChangesNothing ==
    [][ \A keycode \in PurchaseKeys : \A sample \in SampleChoices(words) :
          KeyDown(keycode, FALSE, sample)
          => /\ cash < Tax(keycode)
                  => UNCHANGED << cash, remaining_lifes, words, game_speed_up,
                                  current_input, typed_words,
                                  time_until_next_word, game_over, panicked >>
             /\ cash' \in { cash, cash - Tax(keycode) } ]_vars

\* C12 witness: after an extra life was bought out of 300, a purchase key
\* event found nothing left, with words on the screen.
C12_Witness ==
    /\ refused
    /\ cash = 0
    /\ typed_words = 19
    /\ words # << >>

\* The words flagged consumed, by a remove-words purchase, before this step.
Consumed == { i \in 1..Len(words) : words[i].is_typed }

\* C13: a word flagged consumed by a remove-words purchase is skipped by the
\* next fixed step's match and boundary check: when no active word matches
\* the input (and none is spawned), the cash, typed_words and the input
\* buffer are unchanged; when no active word crosses the right edge,
\* remaining_lifes is unchanged.
C13_ConsumedWordIsSkipped ==
    [][ (StepDone /\ ~SpawnDue(Sim))
        => /\ Matching = {}
                => UNCHANGED << cash, typed_words, current_input >>
           /\ Crossing \cap Active = {}
                => UNCHANGED remaining_lifes ]_vars

\* A step of the model is a purchase key event.
PurchaseEvent ==
    \E keycode \in PurchaseKeys : \E sample \in SampleChoices(words) :
      KeyDown(keycode, FALSE, sample)

\* C14: while the game is over, no purchase key event changes the cash,
\* remaining_lifes, the speed-up or the consumed flag of a word.
C14_NoPurchaseWhileGameOver ==
    [][ (game_over /\ PurchaseEvent)
        => UNCHANGED << cash, remaining_lifes, game_speed_up, words >> ]_vars

\* C15: while practice mode is on, remaining_lifes never decreases and
\* game_over is never set, and a word at or beyond the right edge is still
\* removed by the fixed step in which it gets there.
C15_PracticeModeKeepsLifes ==
    [][ debug_active
        => /\ remaining_lifes' >= remaining_lifes
           /\ ~game_over'
           /\ StepDone
                => \A i \in 1..Len(words') :
                     words'[i].x < SCREEN_WIDTH * Second ]_vars

\* C15 witness: in practice mode the two words on the screen at the start
\* are gone, though nothing was typed and nothing bought since: they crossed
\* the right edge, and no life was taken.
C15_Witness ==
    /\ debug_active
    /\ typed_words = 3
    /\ cash = 30
    /\ steps = 0
    /\ \A i \in 1..Len(words) : words[i].x < 4 * 120 * Second
    /\ remaining_lifes = INITIAL_LIFES
    /\ ~game_over

\* No word of the dictionary equals the input buffer.
Untypable == \A i \in 1..Len(words_pool) : words_pool[i] # current_input

\* C16: a fixed step spawns a word exactly when the spawn timer less the
\* step is <= 0.  It then appends one word (which stays, at its first
\* position, when nothing is typed, consumed or crossing), resets the timer
\* to a value in [3.0 - speed-up, 3.5 - speed-up] of the speed-up before
\* the step, and adds 0.01 to the speed-up.  Otherwise the timer goes down
\* by the step, the speed-up is unchanged and no word is added.
C16_SpawnWhenTimerExpires ==
    [][ StepDone
        => IF time_until_next_word - seconds <= 0
           THEN /\ time_until_next_word' >= 3 * Second - game_speed_up
                /\ time_until_next_word' <= (7 * Second) \div 2 - game_speed_up
                /\ game_speed_up' = game_speed_up + Second \div 100
                /\ Len(words') <= Len(words) + 1
                /\ (Untypable /\ Consumed = {} /\ Crossing = {})
                     => /\ Len(words') = Len(words) + 1
                        /\ SubSeq(words', 1, Len(words))
                             = MovedKept(1, 1..Len(words))
                        /\ \E i \in 1..Len(words_pool) :
                             words'[Len(words')].label = words_pool[i]
                        /\ words'[Len(words')].x
                             = words'[Len(words')].speed * seconds
                        /\ ~words'[Len(words')].is_typed
           ELSE /\ time_until_next_word' = time_until_next_word - seconds
                /\ game_speed_up' = game_speed_up
                /\ Len(words') <= Len(words)
                /\ (Untypable /\ Consumed = {} /\ Crossing = {})
                     => words' = MovedKept(1, 1..Len(words)) ]_vars

\* C16 witness: the first word of a new game was spawned, with an input
\* buffer no word equals: it is on the screen at its first position and
\* the speed-up is 0.01.
C16_Witness ==
    /\ spawned = 1
    /\ typed_words = 0
    /\ game_speed_up = Second \div 100
    /\ current_input = << "A" >>
    /\ Len(words) = 1
    /\ words[1].x = words[1].speed * seconds
    /\ time_until_next_word >= 3 * Second

\* A step of the model is a slow-spawn key event.
SlowWordSpawnEvent == KeyDown("Key3", FALSE, {})

\* C17: a slow-spawn purchase with cash >= 1000 takes exactly 1000 from the
\* cash and halves the speed-up, and changes nothing else; nothing else
\* lowers the speed-up, and the speed-up is never negative.
C17_SlowWordSpawnHalves ==
    [][ /\ (SlowWordSpawnEvent /\ cash >= SLOW_WORD_SPAWN_TAX)
             => /\ cash' = cash - SLOW_WORD_SPAWN_TAX
                /\ 2 * game_speed_up' = game_speed_up
                /\ UNCHANGED << remaining_lifes, words, time_until_next_word,
                                current_input, typed_words, game_over,
                                panicked >>
        /\ game_speed_up' < game_speed_up
             => (SlowWordSpawnEvent /\ cash >= SLOW_WORD_SPAWN_TAX)
        /\ game_speed_up' >= 0 ]_vars

\* C17 witness: the 1000 earned with 50 words went into one slow-spawn
\* purchase, and the speed-up of 0.51 is halved.
C17_Witness ==
    /\ cash = 0
    /\ typed_words = 50
    /\ 2 * game_speed_up = 51 * (Second \div 100)

\* The message the tiers of typed_words call for.
TierEnding ==
    CASE typed_words \in 0..4 -> BUMMER
      [] typed_words \in 5..19 -> NOT_VERY_BAD
      [] typed_words \in 20..49 -> AMAZING
      [] typed_words >= 50 -> MADMAN

\* C18: the end-game message drawn is the one of the tier of typed_words:
\* 0..4 the lowest, 5..19 the second, 20..49 the third, 50 and more the top.
C18_EndingByTier == ending # "" => ending = TierEnding

\* C18 witness: a game over with exactly 50 words typed drew the top message.
C18_Witness == game_over /\ typed_words = 50 /\ ending = MADMAN

\* C20: at the end of every fixed step the words hold no word flagged
\* consumed and no word at or beyond the right edge; a flag set by a
\* remove-words key event is gone, with its word, by then.
C20_NoConsumedWordAfterStep ==
    [][ StepDone
        => \A i \in 1..Len(words') :
             /\ ~words'[i].is_typed
             /\ words'[i].x < SCREEN_WIDTH * Second ]_vars

\* C20 witness: the one word on the screen was bought off with a
\* remove-words purchase (650 are left of 1000), and the fixed step after
\* it pruned the word.
C20_Witness ==
    /\ cash = 650
    /\ typed_words = 50
    /\ spawned = 0
    /\ words = << >>

\* A step of the model is a fixed step that ran to its end and spawned a word.
SpawnStep == StepDone /\ SpawnDue(Sim)

\* C21: every value the spawn timer is reset to is strictly positive, and
\* the range it is drawn from has its lower end strictly below its upper
\* end, however many words were spawned before; so the fixed step after one
\* that spawned a word spawns none.
C21_SpawnTimerResetPositive ==
    [][ SpawnStep
        => /\ min_word_gen_time(game_speed_up) < max_word_gen_time(game_speed_up)
           /\ time_until_next_word' > 0
           /\ time_until_next_word' - seconds > 0 ]_vars

\* C22: with practice mode off, update calls that keep coming, and a player
\* who buys nothing and types no word, the game ends: from some point on
\* game_over is set, and exactly INITIAL_LIFES words have reached the right
\* edge.
C22_UnattendedGameEnds == <>[](game_over /\ crossed = INITIAL_LIFES)

====
